---- MODULE Spec2Model ----
(***************************************************************************)
(* Authoritative dice-roll controller of dicepoker_nuxt                    *)
(* (server/utils/lobbyHandler.ts): the shared physics world, the throwDice *)
(* handler, the interval-driven serverAnimate tick, the settle check and   *)
(* the face resolver.  With it: the connection listeners that initSocket   *)
(* registers (server/index.ts), and the component of app.vue, which rolls  *)
(* dice of its own in the browser and shares no state with the server.     *)
(*                                                                         *)
(* Units.  Lengths, velocities and angular velocities are integers in      *)
(* thousandths (0.05 is 50).  A quaternion is an integer 4-tuple           *)
(* <<x, y, z, w>> standing for the unit quaternion q / |q|; vmult then     *)
(* yields |q|^2 times the rotated vector, and the comparisons between the  *)
(* dot products of one die are the comparisons the code makes.  Wall-clock *)
(* time is in milliseconds (Date.now()); the physics accumulator is in     *)
(* thirds of a millisecond, so that the fixed step 1/60 s is the integer   *)
(* 50.                                                                     *)
(***************************************************************************)
EXTENDS Integers, Sequences, FiniteSets

\* ------------------------------------------------------------ bounds
MaxClients == 2      \* sockets that may connect to /lobby
MaxThrows == 2       \* accepted throws counted before the handler is left alone
MaxQuat == 2         \* largest component of the integer quaternions tabulated
MaxWaits == 1        \* idle periods that may pass in a row between two handler runs
MaxInits == 2        \* runs of initSocket, each adding a connection listener

\* ------------------------------------------------- program constants
numDice == 5
fieldRadius == 2500
diceSize == 500
diceHalfExtents == diceSize \div 2
RestThreshold == 50          \* the 0.05 of the settle check
fixedTimeStep == 50          \* world.step(1 / 60, ...): 1/60 s in thirds of a ms
maxSubSteps == 3             \* world.step(..., ..., 3)
NoTimer == 0                 \* animationIntervalId = null

Dice == 0 .. (numDice - 1)
Clients == 1 .. MaxClients

\* ---------------------------------------------------- vector helpers
Vec3(x, y, z) == <<x, y, z>>

Dot(a, b) == a[1] * b[1] + a[2] * b[2] + a[3] * b[3]

\* The square of Vec3.length(); length() > t  iff  LengthSq > t * t for t >= 0.
LengthSq(v) == Dot(v, v)

Abs(n) == IF n < 0 THEN -n ELSE n

RECURSIVE Gcd(_, _)
Gcd(a, b) == IF b = 0 THEN a ELSE Gcd(b, a % b)

\* Quaternion.normalize(): the zero quaternion stays zero, any other one is
\* scaled to its unit representative (here: the primitive integer vector of
\* the same direction).
Normalize(q) ==
    LET g == Gcd(Gcd(Abs(q[1]), Abs(q[2])), Gcd(Abs(q[3]), Abs(q[4])))
    IN  IF g = 0 THEN q
        ELSE <<q[1] \div g, q[2] \div g, q[3] \div g, q[4] \div g>>

\* Quaternion.vmult(v, target) of cannon-es, term by term.
Vmult(q, v) ==
    LET x == v[1]  y == v[2]  z == v[3]
        qx == q[1] qy == q[2] qz == q[3] qw == q[4]
        ix == qw * x + qy * z - qz * y
        iy == qw * y + qz * x - qx * z
        iz == qw * z + qx * y - qy * x
        iw == (-qx) * x - qy * y - qz * z
    IN  Vec3(ix * qw + iw * (-qx) + iy * (-qz) - iz * (-qy),
             iy * qw + iw * (-qy) + iz * (-qx) - ix * (-qz),
             iz * qw + iw * (-qz) + ix * (-qy) - iy * (-qx))

\* ------------------------------------------------------ face resolver
upVector == Vec3(0, 1, 0)

\* Mutant: the values of local +X and -X exchanged.
faceVectorsSwapped ==
    << [dir |-> Vec3(0, 1, 0),  val |-> 1],
       [dir |-> Vec3(0, -1, 0), val |-> 6],
       [dir |-> Vec3(1, 0, 0),  val |-> 4],
       [dir |-> Vec3(-1, 0, 0), val |-> 3],
       [dir |-> Vec3(0, 0, 1),  val |-> 2],
       [dir |-> Vec3(0, 0, -1), val |-> 5] >>

faceVectors ==
    << [dir |-> Vec3(0, 1, 0),  val |-> 1],
       [dir |-> Vec3(0, -1, 0), val |-> 6],
       [dir |-> Vec3(1, 0, 0),  val |-> 3],
       [dir |-> Vec3(-1, 0, 0), val |-> 4],
       [dir |-> Vec3(0, 0, 1),  val |-> 2],
       [dir |-> Vec3(0, 0, -1), val |-> 5] >>

\* A number of the loop: -Infinity (inf = -1), Infinity (inf = 1) or num.
NegInfinity == [inf |-> -1, num |-> 0]
PosInfinity == [inf |-> 1, num |-> 0]
Finite(n) == [inf |-> 0, num |-> n]

\* Mutant: the comparison made with >=.
GreaterOrEqual(dot, maxDot) ==
    \/ maxDot.inf = -1
    \/ maxDot.inf = 0 /\ dot >= maxDot.num

\* dot > maxDot, for a finite dot
GreaterThan(dot, maxDot) ==
    \/ maxDot.inf = -1
    \/ maxDot.inf = 0 /\ dot > maxDot.num

\* Mutant: maxDot starts at Infinity.
FaceLoopInitPositive == [maxDot |-> PosInfinity, value |-> 0]

\* maxDot and value before the loop (lines 58-59).
FaceLoopInit == [maxDot |-> NegInfinity, value |-> 0]

\* The for loop of determineDiceValue from index i on, with the running
\* maxDot and value in acc.
RECURSIVE FaceLoop(_, _, _)
FaceLoop(q, i, acc) ==
    IF i > Len(faceVectors) THEN acc.value
    ELSE LET axis == Vmult(q, faceVectors[i].dir)
             dot == Dot(axis, upVector)
         IN  IF GreaterThan(dot, acc.maxDot)
             THEN FaceLoop(q, i + 1, [maxDot |-> Finite(dot), value |-> faceVectors[i].val])
             ELSE FaceLoop(q, i + 1, acc)

\* The orientations the dice of this model take: every direction of
\* quaternion with integer components up to MaxQuat.
Orientations ==
    {Normalize(<<x, y, z, w>>) :
        x \in -MaxQuat .. MaxQuat, y \in -MaxQuat .. MaxQuat,
        z \in -MaxQuat .. MaxQuat, w \in -MaxQuat .. MaxQuat} \ {<<0, 0, 0, 0>>}

\* determineDiceValue, run once for each quaternion <<x, y, z, w>> with
\* integer components up to MaxQuat.
FaceTable ==
    [x \in -MaxQuat .. MaxQuat |-> [y \in -MaxQuat .. MaxQuat |->
        [z \in -MaxQuat .. MaxQuat |-> [w \in -MaxQuat .. MaxQuat |->
            FaceLoop(<<x, y, z, w>>, 1, FaceLoopInit)]]]]

determineDiceValue(body) ==
    FaceTable[body.quaternion[1]][body.quaternion[2]][body.quaternion[3]][body.quaternion[4]]

\* ------------------------------------------------------ program state
VARIABLES
    diceBodies,           \* Dice -> body: position, quaternion, velocity, angularVelocity
    accumulator,          \* world.accumulator, thirds of a millisecond
    serverRolling,        \* the rolling flag
    sinceLastTime,        \* Date.now() - lastTime, milliseconds
    animationIntervalId,  \* handle of the interval timer, or NoTimer
    timers,               \* the interval timers the runtime has active
    sockets,              \* the sockets connected to /lobby
    emitted,              \* what the latest handler run emitted to the namespace
    console,              \* what the latest handler run logged (the socket ids left out)
    handler,              \* the handler that ran latest
    accepted,             \* throws accepted so far
    settled,              \* diceResult events emitted so far
    listeners,            \* connection listeners registered on /lobby
    handlers,             \* Clients -> throwDice handlers registered on the socket
    rolling,              \* app.vue: the rolling flag of the component
    diceResults,          \* app.vue: diceResults.value, the values displayed
    totalResult,          \* app.vue: totalResult.value, the sum displayed
    appDiceBodies         \* app.vue: diceBodies, the dice of the component's own world

vars == <<diceBodies, accumulator, serverRolling, sinceLastTime, animationIntervalId,
          timers, sockets, emitted, console, handler, accepted, settled,
          listeners, handlers, rolling, diceResults, totalResult, appDiceBodies>>

physics == <<diceBodies, accumulator>>
control == <<serverRolling, sinceLastTime, animationIntervalId, timers>>
wiring == <<listeners, handlers>>
app == <<rolling, diceResults, totalResult, appDiceBodies>>
server == <<physics, control, sockets, emitted, console, handler, accepted, settled, wiring>>

\* app.vue, init(): new CANNON.Body({...}) of die i, on the ground near the
\* front wall. The component declares numDice, fieldRadius and diceSize
\* with the values of the server module.
AppInitialBody(i) ==
    [position |-> Vec3(((2 * i - (numDice - 1)) * diceSize * 3) \div 4,
                       diceHalfExtents,
                       fieldRadius - (diceSize * 3) \div 2),
     quaternion |-> <<0, 0, 0, 1>>,
     velocity |-> Vec3(0, 0, 0),
     angularVelocity |-> Vec3(0, 0, 0)]

\* new CANNON.Body({...}) of initPhysics: at rest on the ground, identity orientation.
InitialBody ==
    [position |-> Vec3(0, diceHalfExtents, 0),
     quaternion |-> <<0, 0, 0, 1>>,
     velocity |-> Vec3(0, 0, 0),
     angularVelocity |-> Vec3(0, 0, 0)]

Init ==
    /\ diceBodies = [i \in Dice |-> InitialBody]
    /\ accumulator = 0
    /\ serverRolling = FALSE
    /\ sinceLastTime = 0
    /\ animationIntervalId = NoTimer
    /\ timers = {}
    /\ sockets = {}
    /\ emitted = <<>>
    /\ console = <<>>
    /\ handler = "none"
    /\ accepted = 0
    /\ settled = 0
    /\ listeners = 0
    /\ handlers = [c \in Clients |-> 0]
    /\ rolling = FALSE
    /\ diceResults = <<>>
    /\ totalResult = 0
    /\ appDiceBodies = [i \in Dice |-> AppInitialBody(i)]

\* ------------------------------------------------------- runtime timers
\* setInterval returns a handle no active timer has.
NewTimer(active) == CHOOSE h \in 1 .. (Cardinality(active) + 1) : h \notin active

\* --------------------------------------------------------- throw reset
\* One die's twelve Math.random() results, each r standing for r / 1000.
Draw(y, z, qx, qy, qz, qw, vy, vz, vx, wx, wy, wz) ==
    [y |-> y, z |-> z, qx |-> qx, qy |-> qy, qz |-> qz, qw |-> qw,
     vy |-> vy, vz |-> vz, vx |-> vx, wx |-> wx, wy |-> wy, wz |-> wz]

DrawLow  == Draw(0, 500, 500, 500, 500, 750, 0, 0, 500, 0, 0, 0)
DrawHigh == Draw(996, 0, 0, 500, 500, 0, 996, 996, 0, 996, 500, 0)
DrawMid  == Draw(500, 996, 750, 0, 500, 250, 500, 500, 996, 500, 996, 996)

DieDraws == {DrawLow, DrawHigh, DrawMid}

\* The draws of one throw: all dice alike, or all low but die k.
ThrowDraws ==
    {[i \in Dice |-> d] : d \in DieDraws}
        \cup {[i \in Dice |-> IF i = k THEN DrawMid ELSE DrawLow] : k \in Dice}

\* Mutant: the velocities reset (lines 250-251) and none applied after.
ThrownBodyAtRest(i, r) ==
    [position |-> Vec3(((2 * i - (numDice - 1)) * diceSize * 3) \div 4,
                       diceHalfExtents + 500 + r.y,
                       ((r.z - 500) * fieldRadius) \div 2000),
     quaternion |-> Normalize(<<r.qx - 500, r.qy - 500, r.qz - 500, r.qw - 500>>),
     velocity |-> Vec3(0, 0, 0),
     angularVelocity |-> Vec3(0, 0, 0)]

\* Mutant: the for loop left after die 1, the other dice not yet reset.
ThrownBodyTorn(i, r) ==
    IF i >= 2 THEN diceBodies[i]
    ELSE [position |-> Vec3(((2 * i - (numDice - 1)) * diceSize * 3) \div 4,
                            diceHalfExtents + 500 + r.y,
                            ((r.z - 500) * fieldRadius) \div 2000),
          quaternion |-> Normalize(<<r.qx - 500, r.qy - 500, r.qz - 500, r.qw - 500>>),
          velocity |-> Vec3((r.vx - 500) * 3, 4000 + r.vy * 3, -9000 - r.vz * 4),
          angularVelocity |-> Vec3(15000 + r.wx * 10, 15000 + r.wy * 10, 15000 + r.wz * 10)]

\* The body of the for loop of the throwDice handler for die i (lines 236-264).
ThrownBody(i, r) ==
    LET startX == ((2 * i - (numDice - 1)) * diceSize * 3) \div 4
        startY == diceHalfExtents + 500 + r.y
        startZ == ((r.z - 500) * fieldRadius) \div 2000
        velocityY == 4000 + r.vy * 3
        velocityZ == -9000 - r.vz * 4
        velocityX == (r.vx - 500) * 3
    IN  [position |-> Vec3(startX, startY, startZ),
         quaternion |-> Normalize(<<r.qx - 500, r.qy - 500, r.qz - 500, r.qw - 500>>),
         velocity |-> Vec3(velocityX, velocityY, velocityZ),
         angularVelocity |-> Vec3(15000 + r.wx * 10, 15000 + r.wy * 10, 15000 + r.wz * 10)]

\* What a run of the throwDice handler reads and writes: the globals of the
\* module, the timers of the runtime, and the lines logged by the runs of
\* the handlers of one message so far.
ThrowState ==
    [serverRolling |-> serverRolling,
     diceBodies |-> diceBodies,
     animationIntervalId |-> animationIntervalId,
     timers |-> timers,
     console |-> <<>>,
     accepted |-> accepted]

\* Mutant: the handler without its guard.
ThrowNeverIgnored(st) == FALSE

\* if (serverRolling) return;
ThrowIgnored(st) == st.serverRolling

\* if (!animationIntervalId) animationIntervalId = setInterval(...)
StartLoop(st) ==
    IF st.animationIntervalId = NoTimer
    THEN [st EXCEPT !.animationIntervalId = NewTimer(st.timers),
                    !.timers = @ \cup {NewTimer(st.timers)},
                    !.console = @ \o <<"Server animation loop started by throw request from">>]
    ELSE st

\* One run of the callback of socket.on('throwDice', ...), with the random
\* draws r of this run, from the state st.
ThrowDiceRun(st, r) ==
    IF ThrowIgnored(st)
    THEN [st EXCEPT !.console = @ \o <<"Dice already rolling, ignoring new throw request from">>]
    ELSE StartLoop([st EXCEPT !.serverRolling = TRUE,
                              !.console = @ \o <<"Throwing dice requested by">>,
                              !.diceBodies = [i \in Dice |-> ThrownBody(i, r[i])],
                              !.accepted = @ + 1])

\* The handlers of one socket run one after the other, in the order of
\* their registration, each from the state the one before left.
RECURSIVE ThrowDiceRuns(_, _)
ThrowDiceRuns(st, rs) ==
    IF rs = <<>> THEN st
    ELSE CHOOSE after \in {ThrowDiceRun(before, rs[Len(rs)]) :
                               before \in {ThrowDiceRuns(st, SubSeq(rs, 1, Len(rs) - 1))}} : TRUE

\* A throwDice message of socket c: every throwDice handler registered on
\* the socket runs, rs[k] being the random draws of the k-th run.
ThrowDiceMessage(c, rs) ==
    /\ c \in sockets
    /\ Len(rs) = handlers[c]
    /\ handler' = "throwDice"
    /\ emitted' = <<>>
    /\ \E st \in {ThrowDiceRuns(ThrowState, rs)} :
        /\ st.accepted <= MaxThrows
        /\ serverRolling' = st.serverRolling
        /\ diceBodies' = st.diceBodies
        /\ animationIntervalId' = st.animationIntervalId
        /\ timers' = st.timers
        /\ console' = st.console
        /\ accepted' = st.accepted
    /\ UNCHANGED <<accumulator, sinceLastTime, sockets, settled, wiring, app>>

\* The message of a socket that carries one throwDice handler.
ThrowDice(c, r) == ThrowDiceMessage(c, <<r>>)

\* -------------------------------------------------------- physics step
\* Milliseconds between two firings of the interval timer, as Date.now()
\* measures them: under one fixed step, over it, and a stall of over three.
TickDeltas == {10, 20, 70}

\* Milliseconds of one idle period, while no timer is active.
IdlePeriods == {1000}

\* What the engine may leave one die in after internal steps: the kinds of
\* outcome the settle check and the face resolver tell apart.
Flying(i) ==
    [position |-> Vec3((i - 2) * 600, 1200, -1500), quaternion |-> <<1, 2, 0, -2>>,
     velocity |-> Vec3(300, -2000, -4000), angularVelocity |-> Vec3(9000, 0, 4000)]
AtRest(i) ==
    [position |-> Vec3((i - 2) * 600, diceHalfExtents, -2000), quaternion |-> <<1, 0, 0, 0>>,
     velocity |-> Vec3(0, 0, 0), angularVelocity |-> Vec3(0, 0, 0)]
AtThreshold(i) ==
    [position |-> Vec3((i - 2) * 600, diceHalfExtents, -1800), quaternion |-> <<0, 0, 0, 1>>,
     velocity |-> Vec3(30, 0, 40), angularVelocity |-> Vec3(0, 50, 0)]
Sliding(i) ==
    [position |-> Vec3((i - 2) * 600, diceHalfExtents, -1700), quaternion |-> <<0, 0, 1, 1>>,
     velocity |-> Vec3(30, 10, 40), angularVelocity |-> Vec3(0, 0, 0)]
Spinning(i) ==
    [position |-> Vec3((i - 2) * 600, diceHalfExtents, -1600), quaternion |-> <<1, 0, 0, 1>>,
     velocity |-> Vec3(0, 0, 0), angularVelocity |-> Vec3(40, 0, 40)]
Tilted(i) ==
    [position |-> Vec3((i - 2) * 600, 354, -1900), quaternion |-> <<1, 1, 1, 0>>,
     velocity |-> Vec3(0, 0, 0), angularVelocity |-> Vec3(0, 0, 0)]

DieOutcome(kind, i) ==
    CASE kind = "flying" -> Flying(i)
      [] kind = "atRest" -> AtRest(i)
      [] kind = "atThreshold" -> AtThreshold(i)
      [] kind = "sliding" -> Sliding(i)
      [] kind = "spinning" -> Spinning(i)
      [] kind = "tilted" -> Tilted(i)

OutcomeKinds == {"flying", "atRest", "atThreshold", "sliding", "spinning", "tilted"}

\* The engine is a black box: after at least one internal step the dice are
\* in any of these states (all dice of one kind, or all at rest but die k).
WorldOutcomes ==
    {[i \in Dice |-> DieOutcome(o, i)] : o \in {"flying", "atRest", "atThreshold"}}
        \cup {[i \in Dice |-> IF i = k THEN DieOutcome(o, i) ELSE DieOutcome("atRest", i)] :
                o \in OutcomeKinds \ {"flying", "atRest"}, k \in Dice}

Min(a, b) == IF a < b THEN a ELSE b

\* Mutant: a call of world.step that always takes an internal step.
SubStepsAtLeastOne(acc) ==
    IF acc < fixedTimeStep THEN 1 ELSE Min(acc \div fixedTimeStep, maxSubSteps)

\* world.step(1 / 60, dt, 3) of cannon-es: the internal steps it takes with
\* acc on the accumulator after adding dt.
SubSteps(acc) == Min(acc \div fixedTimeStep, maxSubSteps)

\* ... and what it leaves on the accumulator.
Remainder(acc) == acc % fixedTimeStep

\* ------------------------------------------------------- settle check
\* Mutant: a die never counts as at rest.
MovingAlways(body) == TRUE

\* Mutant: the comparison made with >=.
MovingAtThreshold(body) ==
    \/ LengthSq(body.velocity) >= RestThreshold * RestThreshold
    \/ LengthSq(body.angularVelocity) >= RestThreshold * RestThreshold

\* body.velocity.length() > 0.05 || body.angularVelocity.length() > 0.05
Moving(body) ==
    \/ LengthSq(body.velocity) > RestThreshold * RestThreshold
    \/ LengthSq(body.angularVelocity) > RestThreshold * RestThreshold

\* The loop of lines 179-187 from die i on: allStopped, with its break.
RECURSIVE StoppedFrom(_, _)
StoppedFrom(bodies, i) ==
    IF i >= numDice THEN TRUE
    ELSE IF Moving(bodies[i]) THEN FALSE
    ELSE StoppedFrom(bodies, i + 1)

AllStopped(bodies) == StoppedFrom(bodies, 0)

\* ------------------------------------------------- result computation
\* results after the loop of lines 201-205: the values in die order.
RECURSIVE FaceValues(_, _)
FaceValues(bodies, i) ==
    IF i >= numDice THEN <<>>
    ELSE <<determineDiceValue(bodies[i])>> \o FaceValues(bodies, i + 1)

\* total after the same loop.
RECURSIVE Total(_, _)
Total(bodies, i) ==
    IF i >= numDice THEN 0
    ELSE determineDiceValue(bodies[i]) + Total(bodies, i + 1)

\* Insert v into the ascending sequence s.
RECURSIVE Insert(_, _)
Insert(v, s) ==
    IF s = <<>> THEN <<v>>
    ELSE IF v - Head(s) < 0 THEN <<v>> \o s
    ELSE <<Head(s)>> \o Insert(v, Tail(s))

\* Mutant: the results left in die order.
Unsorted(s) == s

\* results.sort((a, b) => a - b): the last element inserted into the sorted
\* rest (rest is bound by the set constructor, so it is sorted once).
RECURSIVE SortAscending(_)
SortAscending(s) ==
    IF s = <<>> THEN <<>>
    ELSE CHOOSE sorted \in {Insert(s[Len(s)], rest) :
                                rest \in {SortAscending(SubSeq(s, 1, Len(s) - 1))}} : TRUE

DiceResult(bodies) ==
    [event |-> "diceResult",
     payload |-> [individual |-> SortAscending(FaceValues(bodies, 0)),
                  total |-> Total(bodies, 0)]]

\* diceStates: the pose of every die.
DiceStateUpdate(bodies) ==
    [event |-> "diceStateUpdate",
     payload |-> [i \in Dice |->
                    [position |-> bodies[i].position,
                     quaternion |-> bodies[i].quaternion]]]

\* ---------------------------------------------------------------- tick
\* Mutant: the settle branch without clearInterval.
StopLoopForgotten ==
    /\ UNCHANGED <<timers, animationIntervalId>>
    /\ console' = <<"Dice settled, results:">>

\* Mutant: clearInterval without animationIntervalId = null.
StopLoopHandleKept ==
    /\ timers' = timers \ {animationIntervalId}
    /\ UNCHANGED animationIntervalId
    /\ console' = <<"Server animation loop stopped.", "Dice settled, results:">>

\* Mutant: animationIntervalId = null without clearInterval.
StopLoopTimerLeft ==
    /\ UNCHANGED timers
    /\ animationIntervalId' = NoTimer
    /\ console' = <<"Server animation loop stopped.", "Dice settled, results:">>

\* if (animationIntervalId) { clearInterval(animationIntervalId); ... = null }
StopLoop ==
    IF animationIntervalId # NoTimer
    THEN /\ timers' = timers \ {animationIntervalId}
         /\ animationIntervalId' = NoTimer
         /\ console' = <<"Server animation loop stopped.",
                         "Dice settled, results:">>
    ELSE /\ UNCHANGED <<timers, animationIntervalId>>
         /\ console' = <<"Dice settled, results:">>

\* Mutant: a roll is given up at its next tick, at rest or not.
SettleForced(bodies) == serverRolling

\* Mutant: the settle check made whether or not a roll is in flight.
SettleObservedIdle(bodies) == AllStopped(bodies)

\* if (serverRolling) { ... if (allStopped) ... }
SettleObserved(bodies) == serverRolling /\ AllStopped(bodies)

\* Mutant: the snapshot taken before world.step.
SnapshotBeforeStep(before, after) == before

\* The bodies diceStates is mapped from: before is the world before
\* world.step, after the world after it.
Snapshot(before, after) == after

\* Mutant: the settle branch leaves the flag alone.
FlagKeptAfterSettle == serverRolling

\* serverRolling = false
FlagAfterSettle == FALSE

\* The worlds world.step may leave after d more milliseconds: the dice as
\* they are when it takes no internal step, any outcome of the engine else.
Stepped(d) ==
    IF SubSteps(accumulator + 3 * (sinceLastTime + d)) = 0
    THEN {diceBodies}
    ELSE WorldOutcomes

\* One run of serverAnimate(io), d ms after the previous event; w is what
\* the engine makes of the dice if it steps.
ServerAnimateBody(d, w) ==
    /\ handler' = "serverAnimate"
    /\ LET dt == sinceLastTime + d
           acc == accumulator + 3 * dt
           diceStates == DiceStateUpdate(Snapshot(diceBodies, w))
       IN  /\ sinceLastTime' = 0
           /\ accumulator' = Remainder(acc)
           /\ diceBodies' = w
           /\ IF SettleObserved(w)
              THEN /\ serverRolling' = FlagAfterSettle
                   /\ StopLoop
                   /\ emitted' = <<diceStates, DiceResult(w)>>
                   /\ settled' = settled + 1
              ELSE /\ emitted' = <<diceStates>>
                   /\ console' = <<>>
                   /\ UNCHANGED <<serverRolling, animationIntervalId, timers, settled>>
    /\ UNCHANGED <<sockets, accepted, wiring, app>>

\* serverAnimate(io) as the callback of an active interval timer.
ServerAnimate(d, w) ==
    /\ timers # {}
    /\ ServerAnimateBody(d, w)

\* Time passes while no timer is active.
Wait(d) ==
    /\ timers = {}
    /\ sinceLastTime + d <= MaxWaits * 1000
    /\ sinceLastTime' = sinceLastTime + d
    /\ handler' = "none"
    /\ emitted' = <<>>
    /\ console' = <<>>
    /\ UNCHANGED <<wiring, app>>
    /\ UNCHANGED <<physics, serverRolling, animationIntervalId, timers, sockets,
                   accepted, settled>>

\* ----------------------------------------------------------- sockets
\* initSocket(event), run for a GET /api/socket.io that reaches the router:
\* one more connection listener on the namespace /lobby.
InitSocket ==
    /\ listeners < MaxInits
    /\ listeners' = listeners + 1
    /\ handler' = "initSocket"
    /\ emitted' = <<>>
    /\ console' = <<>>
    /\ UNCHANGED <<physics, control, sockets, accepted, settled, handlers, app>>

\* The run of initSocket that attaches the socket server: the requests on
\* its path that follow are answered by the attached server itself.
AttachSocket ==
    /\ listeners = 0
    /\ InitSocket

\* A client connects to /lobby: every connection listener of the namespace
\* runs handleLobbyEvents(socket, io), which logs and registers a throwDice
\* and a disconnect handler on the socket.
Connection(c) ==
    /\ listeners > 0
    /\ c \notin sockets
    /\ sockets' = sockets \cup {c}
    /\ handlers' = [handlers EXCEPT ![c] = listeners]
    /\ handler' = "connection"
    /\ emitted' = <<>>
    /\ console' = [k \in 1 .. listeners |-> "User connected to lobby:"]
    /\ UNCHANGED <<physics, control, accepted, settled, listeners, app>>

\* Mutant: a disconnect ends the roll in flight.
DisconnectStopsLoop(c) ==
    /\ c \in sockets
    /\ sockets' = sockets \ {c}
    /\ handler' = "disconnect"
    /\ emitted' = <<>>
    /\ console' = [k \in 1 .. handlers[c] |-> "User disconnected from lobby:"]
    /\ handlers' = [handlers EXCEPT ![c] = 0]
    /\ serverRolling' = FALSE
    /\ timers' = {}
    /\ animationIntervalId' = NoTimer
    /\ UNCHANGED <<physics, sinceLastTime, accepted, settled, listeners, app>>

\* The socket of client c disconnects: every disconnect handler registered
\* on it by socket.on('disconnect', ...) runs, and the socket is gone.
Disconnect(c) ==
    /\ c \in sockets
    /\ sockets' = sockets \ {c}
    /\ handlers' = [handlers EXCEPT ![c] = 0]
    /\ handler' = "disconnect"
    /\ emitted' = <<>>
    /\ console' = [k \in 1 .. handlers[c] |-> "User disconnected from lobby:"]
    /\ UNCHANGED <<physics, control, accepted, settled, listeners, app>>

Next ==
    \/ AttachSocket
    \/ \E c \in Clients : Connection(c)
    \/ \E c \in Clients : Disconnect(c)
    \/ \E c \in Clients, r \in ThrowDraws : ThrowDice(c, r)
    \/ \E d \in TickDeltas : \E w \in Stepped(d) : ServerAnimate(d, w)
    \/ \E d \in IdlePeriods : Wait(d)

Spec == Init /\ [][Next]_vars

\* ---------------------------------------------- face resolver at work
\* The engine leaves every die at rest in one orientation, any of those
\* tabulated.
FaceWorlds ==
    {[i \in Dice |-> [AtRest(i) EXCEPT !.quaternion = q]] : q \in Orientations}

\* One client, rolls of equal throws, each settling in its first tick.
NextFace ==
    \/ AttachSocket
    \/ Connection(1)
    \/ ThrowDice(1, [i \in Dice |-> DrawLow])
    \/ \E w \in FaceWorlds : ServerAnimate(20, w)

SpecFace == Init /\ [][NextFace]_vars

\* ------------------------------------------- serverAnimate called idle
\* serverAnimate(io) run outside any timer while no roll is in flight.
IdleCall(d, w) ==
    /\ ~serverRolling
    /\ ServerAnimateBody(d, w)

\* One client, whose throws draw alike, and calls of serverAnimate between
\* the rolls.
NextIdle ==
    \/ AttachSocket
    \/ Connection(1)
    \/ ThrowDice(1, [i \in Dice |-> DrawLow])
    \/ \E d \in TickDeltas : \E w \in Stepped(d) : ServerAnimate(d, w)
    \/ \E d \in TickDeltas : \E w \in Stepped(d) : IdleCall(d, w)
    \/ \E d \in IdlePeriods : Wait(d)

SpecIdle == Init /\ [][NextIdle]_vars

\* ----------------------------------------------------------- fair runs
\* The outcomes of the engine that decide how a roll goes on: every die in
\* flight, every die at rest, every die at rest but die 0, which spins.
LiveOutcomes ==
    {[i \in Dice |-> DieOutcome("flying", i)],
     [i \in Dice |-> DieOutcome("atRest", i)],
     [i \in Dice |-> IF i = 0 THEN DieOutcome("spinning", i) ELSE DieOutcome("atRest", i)]}

\* Stepped(d), with the engine held to these outcomes.
LiveStepped(d) ==
    IF SubSteps(accumulator + 3 * (sinceLastTime + d)) = 0
    THEN {diceBodies}
    ELSE LiveOutcomes

\* A firing of the interval timer.
Tick == \E d \in TickDeltas : \E w \in LiveStepped(d) : ServerAnimate(d, w)

\* A firing of the interval timer in which the engine steps and leaves
\* every die at rest.
TickAtRest ==
    \E d \in TickDeltas : \E w \in {[i \in Dice |-> DieOutcome("atRest", i)]} :
        /\ SubSteps(accumulator + 3 * (sinceLastTime + d)) > 0
        /\ ServerAnimate(d, w)

\* One client, whose throws draw alike.
NextLive ==
    \/ AttachSocket
    \/ Connection(1)
    \/ Disconnect(1)
    \/ ThrowDice(1, [i \in Dice |-> DrawLow])
    \/ Tick
    \/ \E d \in IdlePeriods : Wait(d)

\* The runtime keeps firing an active timer, and the engine does not keep
\* the dice in motion for ever.
SpecLive == Init /\ [][NextLive]_vars /\ WF_vars(Tick) /\ WF_vars(TickAtRest)

\* ------------------------------------------------ repeated initSocket
\* The draws of the runs of the throwDice handlers of one message: every
\* run draws afresh, low or high.
ListenerDraws == {[i \in Dice |-> DrawLow], [i \in Dice |-> DrawHigh]}

\* Every GET /api/socket.io may reach the router and run initSocket again,
\* so that the sockets connected after it carry one more handler.
NextListeners ==
    \/ InitSocket
    \/ \E c \in Clients : Connection(c)
    \/ \E c \in Clients : Disconnect(c)
    \/ \E c \in Clients : \E rs \in [1 .. handlers[c] -> ListenerDraws] :
            ThrowDiceMessage(c, rs)
    \/ Tick
    \/ \E d \in IdlePeriods : Wait(d)

SpecListeners == Init /\ [][NextListeners]_vars

\* ------------------------------------------- the component of app.vue
\* determineDiceValue of app.vue: world-up, and the local direction and the
\* value of each face in the order of its array.
appUpVector == Vec3(0, 1, 0)

appFaceVectors ==
    << [dir |-> Vec3(0, 1, 0),  val |-> 1],
       [dir |-> Vec3(0, -1, 0), val |-> 6],
       [dir |-> Vec3(1, 0, 0),  val |-> 3],
       [dir |-> Vec3(-1, 0, 0), val |-> 4],
       [dir |-> Vec3(0, 0, 1),  val |-> 2],
       [dir |-> Vec3(0, 0, -1), val |-> 5] >>

\* Mutant: the comparison of the component made with >=.
AppGreaterOrEqual(dot, maxDot) ==
    \/ maxDot.inf = -1
    \/ maxDot.inf = 0 /\ dot >= maxDot.num

\* if (dot > maxDot), for a finite dot
AppGreaterThan(dot, maxDot) ==
    \/ maxDot.inf = -1
    \/ maxDot.inf = 0 /\ dot > maxDot.num

\* let maxDot = -Infinity; let value = 0;
AppFaceLoopInit == [maxDot |-> NegInfinity, value |-> 0]

\* The for loop of determineDiceValue of app.vue from index i on.
RECURSIVE AppFaceLoop(_, _, _)
AppFaceLoop(q, i, acc) ==
    IF i > Len(appFaceVectors) THEN acc.value
    ELSE LET axis == Vmult(q, appFaceVectors[i].dir)
             dot == Dot(axis, appUpVector)
         IN  IF AppGreaterThan(dot, acc.maxDot)
             THEN AppFaceLoop(q, i + 1, [maxDot |-> Finite(dot), value |-> appFaceVectors[i].val])
             ELSE AppFaceLoop(q, i + 1, acc)

\* determineDiceValue of app.vue, run once for each quaternion with integer
\* components up to MaxQuat.
AppFaceTable ==
    [x \in -MaxQuat .. MaxQuat |-> [y \in -MaxQuat .. MaxQuat |->
        [z \in -MaxQuat .. MaxQuat |-> [w \in -MaxQuat .. MaxQuat |->
            AppFaceLoop(<<x, y, z, w>>, 1, AppFaceLoopInit)]]]]

appDetermineDiceValue(body) ==
    AppFaceTable[body.quaternion[1]][body.quaternion[2]][body.quaternion[3]][body.quaternion[4]]

\* calculateAndDisplayResults: results and total after its loop.
RECURSIVE AppFaceValues(_, _)
AppFaceValues(bodies, i) ==
    IF i >= numDice THEN <<>>
    ELSE <<appDetermineDiceValue(bodies[i])>> \o AppFaceValues(bodies, i + 1)

RECURSIVE AppTotal(_, _)
AppTotal(bodies, i) ==
    IF i >= numDice THEN 0
    ELSE appDetermineDiceValue(bodies[i]) + AppTotal(bodies, i + 1)

\* The body of the for loop of throwDice of app.vue for die i: the die
\* starts on the ground; r.y is not drawn.
AppThrownBody(i, r) ==
    LET startX == ((2 * i - (numDice - 1)) * diceSize * 3) \div 4
        startY == diceHalfExtents
        startZ == ((r.z - 500) * fieldRadius) \div 2000
        velocityY == 4000 + r.vy * 3
        velocityZ == -9000 - r.vz * 4
        velocityX == (r.vx - 500) * 3
    IN  [position |-> Vec3(startX, startY, startZ),
         quaternion |-> Normalize(<<r.qx - 500, r.qy - 500, r.qz - 500, r.qw - 500>>),
         velocity |-> Vec3(velocityX, velocityY, velocityZ),
         angularVelocity |-> Vec3(15000 + r.wx * 10, 15000 + r.wy * 10, 15000 + r.wz * 10)]

\* Mutant: the click leaves the display as it is.
AppDisplayKept == [diceResults |-> diceResults, totalResult |-> totalResult]

\* diceResults.value = []; totalResult.value = 0;
AppDisplayCleared == [diceResults |-> <<>>, totalResult |-> 0]

\* throwDice of app.vue, the click handler of the button, with the random
\* draws r. The sound it schedules touches nothing of this state.
AppThrowDice(r) ==
    /\ rolling' = TRUE
    /\ diceResults' = AppDisplayCleared.diceResults
    /\ totalResult' = AppDisplayCleared.totalResult
    /\ appDiceBodies' = [i \in Dice |-> AppThrownBody(i, r[i])]
    /\ UNCHANGED server

\* body.velocity.length() > 0.05 || body.angularVelocity.length() > 0.05
AppMoving(body) ==
    \/ LengthSq(body.velocity) > RestThreshold * RestThreshold
    \/ LengthSq(body.angularVelocity) > RestThreshold * RestThreshold

\* The loop of animate over the dice from die i on: allStopped, with its
\* break.
RECURSIVE AppStoppedFrom(_, _)
AppStoppedFrom(bodies, i) ==
    IF i >= numDice THEN TRUE
    ELSE IF AppMoving(bodies[i]) THEN FALSE
    ELSE AppStoppedFrom(bodies, i + 1)

\* One animation frame: animate() of app.vue. world.step(1 / 60) takes one
\* fixed step, and w is what the engine makes of the dice.
AppAnimate(w) ==
    /\ appDiceBodies' = w
    /\ IF rolling /\ AppStoppedFrom(w, 0)
       THEN /\ rolling' = FALSE
            /\ diceResults' = SortAscending(AppFaceValues(w, 0))
            /\ totalResult' = AppTotal(w, 0)
       ELSE UNCHANGED <<rolling, diceResults, totalResult>>
    /\ UNCHANGED server

\* The component alone: clicks and frames in any order.
NextApp ==
    \/ \E r \in ThrowDraws : AppThrowDice(r)
    \/ \E w \in WorldOutcomes : AppAnimate(w)

SpecApp == Init /\ [][NextApp]_vars

\* A frame of a roll in flight.
AppRollingFrame(w) ==
    /\ rolling
    /\ AppAnimate(w)

\* The component's resolver at work: rolls of equal throws, each settling
\* in its first frame with the dice in one orientation, any of those
\* tabulated.
NextAppFace ==
    \/ AppThrowDice([i \in Dice |-> DrawLow])
    \/ \E w \in FaceWorlds : AppRollingFrame(w)

SpecAppFace == Init /\ [][NextAppFace]_vars

\* ================================================================ claims
ResultEmitted == \E k \in DOMAIN emitted : emitted[k].event = "diceResult"

IgnoredLog == <<"Dice already rolling, ignoring new throw request from">>

\* C1: in every reachable state at most one accepted throw is not yet
\* settled and at most one interval timer is running.
OneRollSession ==
    /\ accepted - settled \in {0, 1}
    /\ Cardinality(timers) <= 1

\* A roll is in flight, its timer running, and a further throwDice came in.
OneRollSessionWitness ==
    /\ accepted - settled = 1
    /\ Cardinality(timers) = 1
    /\ console = IgnoredLog
    /\ Cardinality(sockets) = 2

\* C2: a throwDice handled while serverRolling is true changes no die, not
\* the flag, not the timer handle, not lastTime, and emits nothing.
ThrowWhileRollingIgnored ==
    [][(serverRolling /\ handler' = "throwDice")
        => /\ UNCHANGED <<diceBodies, accumulator, serverRolling,
                          animationIntervalId, timers, sinceLastTime>>
           /\ emitted' = <<>>]_vars

\* A throwDice was just handled during a roll that had already ticked.
ThrowWhileRollingWitness ==
    /\ serverRolling
    /\ handler = "throwDice"
    /\ console = IgnoredLog
    /\ \E w \in WorldOutcomes : diceBodies = w

\* C3: the diceResult events emitted so far are as many as the accepted
\* throws when the table is idle and one fewer while a roll is in flight.
OneResultPerThrow ==
    settled = IF serverRolling THEN accepted - 1 ELSE accepted

\* The second accepted throw has settled and emitted its diceResult.
OneResultPerThrowWitness ==
    /\ accepted = 2
    /\ settled = 2
    /\ ResultEmitted

\* C4: a tick of a roll reports settlement if and only if every one of the
\* 5 dice has linear and angular speed at most 0.05 after the step of that
\* tick; a die exactly at 0.05 is at rest, one die above either threshold
\* keeps the roll going.
AtRestDie(body) ==
    /\ LengthSq(body.velocity) <= RestThreshold * RestThreshold
    /\ LengthSq(body.angularVelocity) <= RestThreshold * RestThreshold

SettledIffAllAtRest ==
    [][(serverRolling /\ handler' = "serverAnimate")
        => /\ ResultEmitted' <=> \A i \in Dice : AtRestDie(diceBodies'[i])
           /\ ResultEmitted' <=> ~serverRolling']_vars

\* A roll settled in a tick that saw a die exactly at both thresholds.
SettledIffAllAtRestWitness ==
    /\ handler = "serverAnimate"
    /\ ResultEmitted
    /\ \E i \in Dice :
        /\ LengthSq(diceBodies[i].velocity) = RestThreshold * RestThreshold
        /\ LengthSq(diceBodies[i].angularVelocity) = RestThreshold * RestThreshold

\* The world-up component (times |q|^2) of the images of the local +X, +Y
\* and +Z axes under the rotation of quaternion q: the middle row of its
\* rotation matrix.
UpOfX(q) == 2 * (q[1] * q[2] + q[4] * q[3])
UpOfY(q) == q[4] * q[4] + q[2] * q[2] - q[1] * q[1] - q[3] * q[3]
UpOfZ(q) == 2 * (q[2] * q[3] - q[4] * q[1])
NormSq(q) == q[1] * q[1] + q[2] * q[2] + q[3] * q[3] + q[4] * q[4]

\* The value pinned to the local axis that q turns straight up, 0 if none is.
Pinned(q) ==
    CASE UpOfY(q) = NormSq(q) -> 1
      [] UpOfY(q) = -NormSq(q) -> 6
      [] UpOfX(q) = NormSq(q) -> 3
      [] UpOfX(q) = -NormSq(q) -> 4
      [] UpOfZ(q) = NormSq(q) -> 2
      [] UpOfZ(q) = -NormSq(q) -> 5
      [] OTHER -> 0

\* The diceResult of the latest tick, when it emitted one.
Result == emitted[Len(emitted)].payload

\* C5: for a die with one local axis straight up the result is the value
\* pinned to that axis (+Y 1, -Y 6, +X 3, -X 4, +Z 2, -Z 5), and the values
\* of opposite local axes sum to 7.
PinnedFaces ==
    /\ ResultEmitted =>
        \A i \in Dice :
            Pinned(diceBodies[i].quaternion) # 0
                => /\ determineDiceValue(diceBodies[i]) = Pinned(diceBodies[i].quaternion)
                   /\ Pinned(diceBodies[i].quaternion) \in
                        {Result.individual[k] : k \in DOMAIN Result.individual}
    /\ \A a, b \in DOMAIN faceVectors :
        (\A k \in 1 .. 3 : faceVectors[a].dir[k] = -faceVectors[b].dir[k])
            => faceVectors[a].val + faceVectors[b].val = 7

\* A roll settled with the local +X axis of every die straight up: five 3s.
PinnedFacesWitness ==
    /\ ResultEmitted
    /\ \A i \in Dice : UpOfX(diceBodies[i].quaternion) = NormSq(diceBodies[i].quaternion)
    /\ Result.individual = <<3, 3, 3, 3, 3>>

\* C6: for every unit quaternion determineDiceValue returns a value in
\* 1..6, never the placeholder 0.
FaceInRange ==
    /\ \A i \in Dice : determineDiceValue(diceBodies[i]) \in 1 .. 6
    /\ ResultEmitted => \A k \in DOMAIN Result.individual : Result.individual[k] \in 1 .. 6

\* A roll settled on an orientation with no local axis straight up.
FaceInRangeWitness ==
    /\ ResultEmitted
    /\ \A i \in Dice : Pinned(diceBodies[i].quaternion) = 0
    /\ Result.total \in 5 .. 30

\* C7: every diceResult carries 5 values in ascending order and their sum
\* as total, which is between 5 and 30.
ResultWellFormed ==
    ResultEmitted =>
        LET individual == Result.individual
        IN  /\ Len(individual) = 5
            /\ \A a, b \in 1 .. Len(individual) : a < b => individual[a] <= individual[b]
            /\ Result.total = individual[1] + individual[2] + individual[3]
                                + individual[4] + individual[5]
            /\ Result.total \in 5 .. 30

\* A diceResult of dice whose values were not ascending in die order.
ResultWellFormedWitness ==
    /\ ResultEmitted
    /\ determineDiceValue(diceBodies[0]) > determineDiceValue(diceBodies[4])

\* C8: a tick emits one diceStateUpdate, of the poses after its physics
\* step; a settling tick emits it before the diceResult, whose values are
\* the faces of the orientations in that snapshot.
FacesOf(poses, v) == {i \in Dice : determineDiceValue(poses[i]) = v}

TickBroadcast ==
    [][handler' = "serverAnimate"
        => /\ Len(emitted') \in {1, 2}
           /\ emitted'[1].event = "diceStateUpdate"
           /\ emitted'[1].payload =
                [i \in Dice |-> [position |-> diceBodies'[i].position,
                                 quaternion |-> diceBodies'[i].quaternion]]
           /\ Len(emitted') = 2
                => /\ emitted'[2].event = "diceResult"
                   /\ \A v \in 1 .. 6 :
                        Cardinality({k \in 1 .. 5 : emitted'[2].payload.individual[k] = v})
                            = Cardinality(FacesOf(emitted'[1].payload, v))]_vars

\* A settling tick whose physics step moved the dice: snapshot, then result.
TickBroadcastWitness ==
    /\ handler = "serverAnimate"
    /\ Len(emitted) = 2
    /\ emitted[2].event = "diceResult"
    /\ \E i \in Dice : diceBodies[i] = Tilted(i)

\* C9: the tick that observes settlement cancels the timer: no tick runs
\* while the table is idle, and only a settling tick removes a timer.
LoopStopsOnSettle ==
    [][/\ handler' = "serverAnimate" => serverRolling
       /\ (handler' = "serverAnimate" /\ ResultEmitted')
            => (timers' = {} /\ animationIntervalId' = NoTimer)
       /\ timers' # timers /\ timers' \subseteq timers
            => (handler' = "serverAnimate" /\ ResultEmitted')]_vars

\* A roll has settled, the loop is off, and a client has connected since.
LoopStopsOnSettleWitness ==
    /\ settled = 1
    /\ ~serverRolling
    /\ timers = {}
    /\ handler = "connection"

\* C10: once a roll has settled the table is idle, and the next throwDice
\* is accepted: it resets the dice, sets the flag and starts a new loop,
\* which goes on to a new diceResult.
IdleAfterSettle ==
    [][/\ (handler' = "serverAnimate" /\ ResultEmitted')
            => (~serverRolling' /\ timers' = {})
       /\ (settled >= 1 /\ ~serverRolling /\ handler' = "throwDice")
            => /\ serverRolling'
               /\ accepted' = accepted + 1
               /\ animationIntervalId' # NoTimer
               /\ timers' = {animationIntervalId'}
               /\ \E r \in ThrowDraws :
                    diceBodies' = [i \in Dice |-> ThrownBody(i, r[i])]
               /\ \A i \in Dice : ~AtRestDie(diceBodies'[i])]_vars

\* The throw accepted after the first diceResult has led to a second one.
IdleAfterSettleWitness ==
    /\ settled = 2
    /\ handler = "serverAnimate"
    /\ ResultEmitted
    /\ ~serverRolling

\* C11: under a timer that keeps firing and an engine that brings the dice
\* to rest, every accepted throw is followed by its diceResult, and a set
\* rolling flag is cleared again.
ThrowLeadsToResult ==
    /\ \A n \in 1 .. MaxThrows : (accepted = n) ~> (settled = n)
    /\ serverRolling ~> ~serverRolling

\* The first roll has settled, in a tick later than its first one.
ThrowLeadsToResultWitness ==
    /\ accepted = 1
    /\ settled = 1
    /\ ResultEmitted
    /\ ~serverRolling
    /\ accumulator = 40

\* C12: a run of serverAnimate that finds serverRolling false emits one
\* diceStateUpdate with the poses of all 5 dice and no diceResult, and
\* leaves the flag false and the timer handle as it was.
IdleTickOnlyBroadcasts ==
    [][(~serverRolling /\ handler' = "serverAnimate")
        => /\ emitted' = <<DiceStateUpdate(diceBodies')>>
           /\ DOMAIN emitted'[1].payload = Dice
           /\ Cardinality(DOMAIN emitted'[1].payload) = 5
           /\ ~ResultEmitted'
           /\ ~serverRolling'
           /\ UNCHANGED <<animationIntervalId, timers>>]_vars

\* serverAnimate ran between two rolls, found every die at rest and emitted
\* the poses alone.
IdleTickOnlyBroadcastsWitness ==
    /\ handler = "serverAnimate"
    /\ ~serverRolling
    /\ settled = 1
    /\ AllStopped(diceBodies)
    /\ Len(emitted) = 1
    /\ emitted[1].event = "diceStateUpdate"

\* C13: a disconnect, the thrower's included, changes neither the rolling
\* flag nor the timer nor any die; a roll in flight keeps its timer, whose
\* ticks go on emitting the poses and, once the dice are at rest, the
\* diceResult, whoever is still connected.
DisconnectLeavesRoll ==
    [][/\ handler' = "disconnect"
            => /\ UNCHANGED <<serverRolling, animationIntervalId, timers,
                              diceBodies, accumulator, sinceLastTime>>
               /\ emitted' = <<>>
       /\ (handler' = "disconnect" /\ serverRolling')
            => (animationIntervalId' # NoTimer /\ timers' = {animationIntervalId'})
       /\ (handler' = "serverAnimate" /\ serverRolling)
            => /\ emitted'[1] = DiceStateUpdate(diceBodies')
               /\ AllStopped(diceBodies') => ResultEmitted']_vars

\* The first roll has settled and emitted its diceResult after every
\* client, the thrower too, had disconnected.
DisconnectLeavesRollWitness ==
    /\ sockets = {}
    /\ accepted = 1
    /\ settled = 1
    /\ handler = "serverAnimate"
    /\ ResultEmitted

\* The dice as a throw may leave them.
ThrownWorlds == {[i \in Dice |-> ThrownBody(i, r[i])] : r \in ThrowDraws}

\* The deltas the tick of this step may have measured, and the whole fixed
\* steps the accumulator held once such a delta was added.
MeasuredDeltas ==
    {d \in TickDeltas : accumulator' = (accumulator + 3 * (sinceLastTime + d)) % fixedTimeStep}
Due(d) == (accumulator + 3 * (sinceLastTime + d)) \div fixedTimeStep

TimerStartedOnce ==
    [][/\ Cardinality(timers') <= 1
       /\ timers' \subseteq {animationIntervalId'}
       /\ timers' \ timers # {}
            => (handler' = "throwDice" /\ animationIntervalId = NoTimer /\ timers = {})
       /\ (animationIntervalId \in timers /\ animationIntervalId' # animationIntervalId)
            => animationIntervalId \notin timers']_vars

\* The throw after the first settlement has started the loop again: one
\* timer, named by the handle.
TimerStartedOnceWitness ==
    /\ accepted = 2
    /\ settled = 1
    /\ handler = "throwDice"
    /\ console = <<"Throwing dice requested by",
                   "Server animation loop started by throw request from">>
    /\ animationIntervalId # NoTimer
    /\ timers = {animationIntervalId}

\* The dot products with world-up (times |q|^2) of the six local face
\* vectors under q, and the face values, both in the order of the loop.
UpDots(q) == <<UpOfY(q), -UpOfY(q), UpOfX(q), -UpOfX(q), UpOfZ(q), -UpOfZ(q)>>
ValuesInOrder == <<1, 6, 3, 4, 2, 5>>
Maximal(q) == {k \in 1 .. 6 : \A j \in 1 .. 6 : UpDots(q)[j] <= UpDots(q)[k]}
FirstMaximal(q) == CHOOSE k \in Maximal(q) : \A j \in Maximal(q) : k <= j

\* C16: determineDiceValue returns the value of the first face, in the
\* order +Y(1), -Y(6), +X(3), -X(4), +Z(2), -Z(5), whose dot product with
\* world-up is maximal; so do the values of a diceResult.
FirstMaximalFaceWins ==
    /\ \A i \in Dice :
        determineDiceValue(diceBodies[i]) = ValuesInOrder[FirstMaximal(diceBodies[i].quaternion)]
    /\ ResultEmitted =>
        \A v \in 1 .. 6 :
            Cardinality({k \in 1 .. 5 : Result.individual[k] = v})
                = Cardinality({i \in Dice :
                    ValuesInOrder[FirstMaximal(diceBodies[i].quaternion)] = v})

\* A roll settled with every die balanced on an edge, local +X and +Z
\* equally high: +X comes first, so five 3s.
FirstMaximalFaceWinsWitness ==
    /\ ResultEmitted
    /\ \A i \in Dice :
        /\ Maximal(diceBodies[i].quaternion) = {3, 5}
        /\ determineDiceValue(diceBodies[i]) = 3
    /\ Result.total = 15

\* C17: while a roll is in flight, every step but a tick that finds all
\* dice at rest leaves the flag set and the timer active, and every
\* throwDice is ignored; the flag is cleared by such a tick alone.
NoTimeout ==
    [][serverRolling
        => /\ ~(handler' = "serverAnimate" /\ AllStopped(diceBodies'))
                => /\ serverRolling'
                   /\ timers' # {}
                   /\ UNCHANGED <<timers, animationIntervalId>>
           /\ handler' = "throwDice"
                => /\ console' = IgnoredLog
                   /\ UNCHANGED <<diceBodies, accepted>>
           /\ ~serverRolling'
                => /\ handler' = "serverAnimate"
                   /\ AllStopped(diceBodies')
                   /\ ResultEmitted']_vars

\* A roll that several ticks have not settled, one die spinning on, and a
\* throwDice that was ignored.
NoTimeoutWitness ==
    /\ serverRolling
    /\ timers # {}
    /\ handler = "throwDice"
    /\ console = IgnoredLog
    /\ accumulator = 40
    /\ \E k \in Dice : diceBodies[k] = DieOutcome("spinning", k)

\* A pose as the throw reset sets it: at least 0.5 above resting height and
\* within a quarter of the field radius of centre depth (lines 240-241).
FreshPose(pose) ==
    /\ pose.position[2] >= diceHalfExtents + 500
    /\ Abs(pose.position[3]) <= fieldRadius \div 4

\* All five poses as reset, or none of them.
Whole(poses) ==
    \/ \A i \in Dice : FreshPose(poses[i])
    \/ \A i \in Dice : ~FreshPose(poses[i])

FlagAgreesWithTimer ==
    /\ ~serverRolling /\ animationIntervalId = NoTimer
    /\ [](/\ serverRolling <=> animationIntervalId # NoTimer
          /\ timers = IF serverRolling THEN {animationIntervalId} ELSE {})
    /\ [][handler' = "serverAnimate" => serverRolling]_vars

\* A roll is in flight after an earlier one has settled, flag and handle
\* both set, and a client has just connected.
FlagAgreesWithTimerWitness ==
    /\ settled = 1
    /\ serverRolling
    /\ animationIntervalId # NoTimer
    /\ handler = "connection"

\* C20: an accepted throw leaves every die with linear and with angular
\* speed above 0.05; a tick that leaves the dice as they were reports no
\* settlement, and a tick that reports settlement has applied at least one
\* sub-step, so that no diceResult is of the poses of a throw reset.
ThrowLeavesDiceMoving ==
    [][/\ (handler' = "throwDice" /\ ~serverRolling)
            => \A i \in Dice :
                /\ LengthSq(diceBodies'[i].velocity) > RestThreshold * RestThreshold
                /\ LengthSq(diceBodies'[i].angularVelocity) > RestThreshold * RestThreshold
       /\ (handler' = "serverAnimate" /\ serverRolling /\ diceBodies' = diceBodies)
            => ~ResultEmitted'
       /\ (handler' = "serverAnimate" /\ ResultEmitted')
            => /\ \A d \in MeasuredDeltas : Due(d) >= 1
               /\ \A i \in Dice : ~FreshPose(diceBodies'[i])]_vars

\* The slowest throw there is, and after it a tick that took no sub-step:
\* the dice are as thrown, and no diceResult was emitted.
ThrowLeavesDiceMovingWitness ==
    /\ handler = "serverAnimate"
    /\ serverRolling
    /\ ~ResultEmitted
    /\ \A i \in Dice :
        /\ diceBodies[i].velocity = Vec3(0, 4000, -9000)
        /\ diceBodies[i].angularVelocity = Vec3(15000, 15000, 15000)

\* The delta the tick of this step hands to world.step when the timer fired
\* d ms after the previous event (currentTime - lastTime), and the time
\* since the loop of the session was started: the throw starts the timer in
\* the event before, so that the timer's first firing comes d ms after it.
HandedDelta(d) == sinceLastTime + d
SinceLoopStart(d) == d

\* C21 as stated: the first tick of a roll session, which finds the dice as
\* the throw left them, hands world.step the time elapsed since the loop of
\* that session was started, with no idle time from before the throw in it.
FirstDeltaSinceLoopStart ==
    [][(serverRolling /\ diceBodies \in ThrownWorlds /\ handler' = "serverAnimate")
        => \A d \in MeasuredDeltas : HandedDelta(d) = SinceLoopStart(d)]_vars

\* A throw accepted a second after the module was loaded: lastTime is still
\* the time of the load, and the first tick will measure from it.
FirstDeltaIdleWitness ==
    /\ handler = "throwDice"
    /\ serverRolling
    /\ accepted = 1
    /\ timers # {}
    /\ sinceLastTime = 1000

\* How often the line l is in the log of the latest handler runs.
Logged(l, log) == Cardinality({k \in DOMAIN log : log[k] = l})

\* C22: however many times initSocket has run, and so however many
\* throwDice handlers the socket of a client carries, one throwDice message
\* starts at most one roll session, resets the dice at most once, and
\* starts at most one interval timer; a message that starts no session
\* leaves the dice, the flag and the timers as they were.
OneSessionPerMessage ==
    [][handler' = "throwDice"
        => /\ accepted' \in {accepted, accepted + 1}
           /\ Logged("Throwing dice requested by", console') = accepted' - accepted
           /\ Logged("Server animation loop started by throw request from", console') <= 1
           /\ Cardinality(timers' \ timers) <= 1
           /\ Cardinality(timers') <= 1
           /\ accepted' = accepted
                => UNCHANGED <<diceBodies, serverRolling, timers, animationIntervalId>>
           /\ accepted' = accepted + 1
                => /\ ~serverRolling /\ serverRolling'
                   /\ \E r \in ListenerDraws : diceBodies' = [i \in Dice |-> ThrownBody(i, r[i])]]_vars

\* A socket connected after initSocket ran twice has sent throwDice: its
\* first handler started the roll and its second handler ignored the
\* message.
OneSessionPerMessageWitness ==
    /\ handler = "throwDice"
    /\ \E c \in sockets : handlers[c] = 2
    /\ console = <<"Throwing dice requested by",
                   "Server animation loop started by throw request from",
                   "Dice already rolling, ignoring new throw request from">>
    /\ accepted = 1
    /\ serverRolling
    /\ Cardinality(timers) = 1

\* C23: the face resolver of app.vue and determineDiceValue of the server
\* return the same value for every orientation of a die, ties between
\* faces included; so the values and the sum the component displays are
\* those the server computes for the same dice.
ResolversAgree ==
    /\ \A i \in Dice :
        appDetermineDiceValue(appDiceBodies[i]) = determineDiceValue(appDiceBodies[i])
    /\ diceResults # <<>> =>
        /\ diceResults = DiceResult(appDiceBodies).payload.individual
        /\ totalResult = DiceResult(appDiceBodies).payload.total

\* The component displays a roll settled with every die balanced on an
\* edge, local +X and +Z equally high: five 3s, as on the server.
ResolversAgreeWitness ==
    /\ ~rolling
    /\ \A i \in Dice :
        /\ Maximal(appDiceBodies[i].quaternion) = {3, 5}
        /\ determineDiceValue(appDiceBodies[i]) = 3
    /\ diceResults = <<3, 3, 3, 3, 3>>
    /\ totalResult = 15

\* C24: in the component, while rolling is true nothing is displayed
\* (diceResults is empty and totalResult is 0), whatever the clicks and
\* frames, a click during a roll included; the display is set only by a
\* frame that finds every die stopped during a roll, and that frame clears
\* rolling.
DisplayClearedWhileRolling ==
    /\ [](rolling => diceResults = <<>> /\ totalResult = 0)
    /\ [][(diceResults' # <<>> /\ diceResults' # diceResults) \/ totalResult' \notin {0, totalResult}
            => /\ rolling
               /\ ~rolling'
               /\ AppStoppedFrom(appDiceBodies', 0)
               /\ diceResults' = SortAscending(AppFaceValues(appDiceBodies', 0))
               /\ totalResult' = AppTotal(appDiceBodies', 0)]_vars

\* A click has thrown the dice of the component: it is rolling, and
\* nothing is displayed.
DisplayClearedWhileRollingWitness ==
    /\ rolling
    /\ diceResults = <<>>
    /\ totalResult = 0
    /\ \E r \in ThrowDraws : appDiceBodies = [i \in Dice |-> AppThrownBody(i, r[i])]

====
